---- MODULE Spec2Model ----
(***************************************************************************)
(* Tools/cases_generator/stack.py: the symbolic stack-offset algebra       *)
(* (StackOffset) and the virtual stack simulator (Stack) of the cases      *)
(* generator.                                                              *)
(*                                                                         *)
(* Python strings are TLA+ strings; they are taken apart with Len and      *)
(* SubSeq and put together with \o, so rendering, integer parsing and the  *)
(* textual order used by sorted() are computed character by character.     *)
(***************************************************************************)
EXTENDS Integers, Sequences, FiniteSets, TLC

(***************************************************************************)
(* Bounds of the model.                                                    *)
(***************************************************************************)
\* Stack.pop / Stack.push calls between two completed flushes.
MaxOps == 3
\* Equal-size pop/push pairs between two completed flushes, when the calls
\* are such pairs only.
MaxPairs == 2
\* Terms recorded on the single StackOffset of OffsetSpec.
MaxTerms == 5
\* Terms recorded on each of the two StackOffsets of PairSpec.
MaxPairTerms == 3

(***************************************************************************)
(* Python str: characters, order, int() and str().                         *)
(***************************************************************************)
\* The characters that occur in the model, in code point order.
Chars == " &()*+-0123456789:;=?ABCDEFGHIJKLMNOPQRSTUVWXYZ[]_abcdefghijklmnopqrstuvwxyz{}"

Digits == "0123456789"

CharAt(s, i) == SubSeq(s, i, i)

\* ord(c), up to the characters left out of Chars.
OrdTable ==
    [c \in {CharAt(Chars, i) : i \in 1..Len(Chars)} |->
        CHOOSE i \in 1..Len(Chars) : CharAt(Chars, i) = c]

Ord(c) == OrdTable[c]

DigitTable ==
    [c \in {CharAt(Digits, i) : i \in 1..Len(Digits)} |->
        (CHOOSE i \in 1..Len(Digits) : CharAt(Digits, i) = c) - 1]

IsDigit(c) == c \in DOMAIN DigitTable

DigitVal(c) == DigitTable[c]

\* str.__lt__: the first differing character decides, a proper prefix is less.
RECURSIVE StrLessFrom(_, _, _)
StrLessFrom(s, t, i) ==
    IF i > Len(t) THEN FALSE
    ELSE IF i > Len(s) THEN TRUE
    ELSE IF CharAt(s, i) = CharAt(t, i) THEN StrLessFrom(s, t, i + 1)
    ELSE Ord(CharAt(s, i)) < Ord(CharAt(t, i))

StrLess(s, t) == StrLessFrom(s, t, 1)

StartsWith(s, p) == Len(s) >= Len(p) /\ SubSeq(s, 1, Len(p)) = p

\* str[k:] for k = n (drops the first n characters).
DropPrefix(s, n) == SubSeq(s, n + 1, Len(s))

\* The digits of an integer literal, after an optional sign.
LitDigits(s) ==
    IF Len(s) > 0 /\ CharAt(s, 1) \in {"-", "+"} THEN DropPrefix(s, 1) ELSE s

AllDigits(d) == Len(d) > 0 /\ \A i \in 1..Len(d) : IsDigit(CharAt(d, i))

\* int(item) succeeds (no ValueError): an optional sign and decimal digits.
IsInt(s) == AllDigits(LitDigits(s))

RECURSIVE DigitsVal(_, _)
DigitsVal(d, n) ==
    IF n = 0 THEN 0 ELSE 10 * DigitsVal(d, n - 1) + DigitVal(CharAt(d, n))

Signed(s, v) == IF CharAt(s, 1) = "-" THEN 0 - v ELSE v

NumberOf(d) == DigitsVal(d, Len(d))

\* int(item)
ParseInt(s) == Signed(s, NumberOf(LitDigits(s)))

RECURSIVE NatToStr(_)
NatToStr(n) ==
    IF n < 10 THEN CharAt(Digits, n + 1)
    ELSE NatToStr(n \div 10) \o CharAt(Digits, (n % 10) + 1)

\* str(int_offset), as formatted by f"{int_offset}"
IntToStr(n) == IF n < 0 THEN "-" \o NatToStr(0 - n) ELSE NatToStr(n)

\* sorted(list): ascending in str order.
RECURSIVE Insert(_, _)
Insert(sq, e) ==
    IF sq = <<>> THEN <<e>>
    ELSE IF StrLess(e, Head(sq)) THEN <<e>> \o sq
    ELSE <<Head(sq)>> \o Insert(Tail(sq), e)

RECURSIVE sorted(_)
sorted(sq) ==
    IF sq = <<>> THEN <<>> ELSE Insert(sorted(SubSeq(sq, 1, Len(sq) - 1)), sq[Len(sq)])

\* list[:-1], what list.pop() leaves behind.
Front(sq) == SubSeq(sq, 1, Len(sq) - 1)

Last(sq) == sq[Len(sq)]

(***************************************************************************)
(* analyzer.StackItem and formatting.maybe_parenthesize (imported).        *)
(***************************************************************************)
\* A stack-slot descriptor; "" is the empty/None type and condition.
StackItem(name, size, condition, peek, array, type) ==
    [name |-> name, size |-> size, condition |-> condition,
     peek |-> peek, array |-> array, type |-> type]

is_array(var) == var.array

WordChars == "0123456789ABCDEFGHIJKLMNOPQRSTUVWXYZ_abcdefghijklmnopqrstuvwxyz "

WordCharSet == {CharAt(WordChars, i) : i \in 1..Len(WordChars)}

HasOperator(sym) == \E i \in 1..Len(sym) : CharAt(sym, i) \notin WordCharSet

\* Parenthesize a term that contains an operator.
maybe_parenthesize(sym) == IF HasOperator(sym) THEN "(" \o sym \o ")" ELSE sym

(***************************************************************************)
(* var_size                                                                *)
(***************************************************************************)
var_size(var) ==
    IF var.condition # ""
    THEN IF var.condition = "oparg & 1" /\ var.size = "1"
         THEN "(" \o var.condition \o ")"
         ELSE "((" \o var.condition \o ") ? " \o var.size \o " : 0)"
    ELSE var.size

(***************************************************************************)
(* class StackOffset                                                       *)
(***************************************************************************)
\* StackOffset.__init__ and StackOffset.clear
EmptyOffset == [popped |-> <<>>, pushed |-> <<>>]

StackOffset_pop(self, item) == [self EXCEPT !.popped = Append(@, var_size(item))]

\* StackOffset_push appending to the popped list, as StackOffset.pop does.
StackOffset_push_OnPopped(self, item) ==
    [self EXCEPT !.popped = Append(@, var_size(item))]

StackOffset_push(self, item) == [self EXCEPT !.pushed = Append(@, var_size(item))]

\* SimplifyLoop with the smaller of two unequal maxima treated as unmatched
\* too, instead of being put back for the next comparison.
RECURSIVE SimplifyLoop_NoRequeue(_, _, _, _)
SimplifyLoop_NoRequeue(popped, pushed, selfPopped, selfPushed) ==
    IF popped = <<>> \/ pushed = <<>>
    THEN [popped |-> selfPopped \o popped, pushed |-> selfPushed \o pushed]
    ELSE LET pop == Last(popped)
             push == Last(pushed)
         IN  IF pop = push
             THEN SimplifyLoop_NoRequeue(Front(popped), Front(pushed),
                                         selfPopped, selfPushed)
             ELSE SimplifyLoop_NoRequeue(Front(popped), Front(pushed),
                                         Append(selfPopped, pop),
                                         Append(selfPushed, push))

\* SimplifyLoop without lines 53-54: what is left on the list that is not
\* exhausted is dropped.
RECURSIVE SimplifyLoop_DropRest(_, _, _, _)
SimplifyLoop_DropRest(popped, pushed, selfPopped, selfPushed) ==
    IF popped = <<>> \/ pushed = <<>>
    THEN [popped |-> selfPopped, pushed |-> selfPushed]
    ELSE LET pop == Last(popped)
             push == Last(pushed)
         IN  IF pop = push
             THEN SimplifyLoop_DropRest(Front(popped), Front(pushed),
                                        selfPopped, selfPushed)
             ELSE IF StrLess(push, pop)
             THEN SimplifyLoop_DropRest(Front(popped), pushed,
                                        Append(selfPopped, pop), selfPushed)
             ELSE SimplifyLoop_DropRest(popped, Front(pushed),
                                        selfPopped, Append(selfPushed, push))

\* The while loop of simplify: popped and pushed are the sorted local lists,
\* selfPopped and selfPushed the lists being rebuilt.
RECURSIVE SimplifyLoop(_, _, _, _)
SimplifyLoop(popped, pushed, selfPopped, selfPushed) ==
    IF popped = <<>> \/ pushed = <<>>
    THEN [popped |-> selfPopped \o popped, pushed |-> selfPushed \o pushed]
    ELSE LET pop == Last(popped)
             push == Last(pushed)
         IN  IF pop = push
             THEN SimplifyLoop(Front(popped), Front(pushed), selfPopped, selfPushed)
             ELSE IF StrLess(push, pop)
             THEN SimplifyLoop(Front(popped), pushed, Append(selfPopped, pop), selfPushed)
             ELSE SimplifyLoop(popped, Front(pushed), selfPopped, Append(selfPushed, push))

simplify(self) ==
    IF self.popped = <<>> \/ self.pushed = <<>>
    THEN self
    ELSE SimplifyLoop(sorted(self.popped), sorted(self.pushed), <<>>, <<>>)

\* The two for loops of to_c: the integer literals are summed ...
RECURSIVE IntSum(_)
IntSum(items) ==
    IF items = <<>> THEN 0
    ELSE IntSum(Front(items)) + (IF IsInt(Last(items)) THEN ParseInt(Last(items)) ELSE 0)

\* ... and the other terms are appended with the sign of their list.
RECURSIVE SymbolSum(_, _)
SymbolSum(items, sign) ==
    IF items = <<>> THEN ""
    ELSE SymbolSum(Front(items), sign)
         \o (IF IsInt(Last(items)) THEN ""
             ELSE sign \o maybe_parenthesize(Last(items)))

\* The string to_c returns for lists that are already simplified.
Render(self) ==
    LET int_offset == IntSum(self.pushed) - IntSum(self.popped)
        symbol_offset == SymbolSum(self.popped, " - ") \o SymbolSum(self.pushed, " + ")
        res0 == IF symbol_offset # "" /\ int_offset = 0
                THEN symbol_offset
                ELSE IntToStr(int_offset) \o symbol_offset
        res1 == IF StartsWith(res0, " + ") THEN DropPrefix(res0, 3) ELSE res0
    IN  IF StartsWith(res1, " - ") THEN "-" \o DropPrefix(res1, 3) ELSE res1

\* to_c simplifies self in place and returns a string: res is the string,
\* self the StackOffset as the call leaves it.
to_c(self) ==
    LET simplified == simplify(self)
    IN  [res |-> Render(simplified), self |-> simplified]

(***************************************************************************)
(* class Stack                                                             *)
(***************************************************************************)
\* Stack.__init__
NewStack ==
    [top_offset |-> EmptyOffset, base_offset |-> EmptyOffset,
     peek_offset |-> EmptyOffset, variables |-> <<>>, defined |-> {}]

\* What a call hands back: the Stack as the call leaves it, the returned
\* string (ret, "" also when the call raises), the exception raised ("" for
\* none) and the strings passed to out.emit, in order.
Outcome(self, ret, exc, emitted) ==
    [self |-> self, ret |-> ret, exc |-> exc, emitted |-> emitted]

\* Mismatch comparing the effective sizes instead of the declared ones.
Mismatch_EffectiveSize(popped, var) == var_size(popped) # var_size(var)

\* The test of line 104.
Mismatch(popped, var) == popped.size # var.size

\* Lines 112-115: the consumer reads the physical stack at the top offset;
\* top is what top_offset.to_c() returns and leaves.
ReadAtTop(rest, var, indirect, top) ==
    Outcome([rest EXCEPT !.defined = @ \cup {var.name}, !.top_offset = top.self],
            var.name \o " = " \o indirect \o "stack_pointer[" \o top.res \o "];\n",
            "", <<>>)

\* Lines 119-120: the consumer is assigned the producer.
Alias(rest, var, popped) ==
    Outcome([rest EXCEPT !.defined = @ \cup {var.name}],
            var.name \o " = " \o popped.name \o ";\n", "", <<>>)

\* Served putting the slot back on the in-flight list before it raises.
Served_PutBack(rest, var, indirect, popped) ==
    IF Mismatch(popped, var)
    THEN Outcome([rest EXCEPT !.variables = Append(@, popped)],
                 "", "SizeMismatch", <<>>)
    ELSE IF popped.name = var.name
    THEN Outcome(rest, "", "", <<>>)
    ELSE IF popped.name = "unused"
    THEN ReadAtTop(rest, var, indirect, to_c(rest.top_offset))
    ELSE IF var.name = "unused"
    THEN Outcome(rest, "", "", <<>>)
    ELSE Alias(rest, var, popped)

\* Served with the test for an `unused` producer inverted: a named producer
\* is read back from memory and an `unused` one is aliased.
Served_InvertedUnused(rest, var, indirect, popped) ==
    IF Mismatch(popped, var)
    THEN Outcome(rest, "", "SizeMismatch", <<>>)
    ELSE IF popped.name = var.name
    THEN Outcome(rest, "", "", <<>>)
    ELSE IF popped.name # "unused"
    THEN ReadAtTop(rest, var, indirect, to_c(rest.top_offset))
    ELSE IF var.name = "unused"
    THEN Outcome(rest, "", "", <<>>)
    ELSE Alias(rest, var, popped)

\* Lines 104-120: popped is the in-flight slot taken, rest the Stack
\* without it.
Served(rest, var, indirect, popped) ==
    IF Mismatch(popped, var)
    THEN Outcome(rest, "", "SizeMismatch", <<>>)
    ELSE IF popped.name = var.name
    THEN Outcome(rest, "", "", <<>>)
    ELSE IF popped.name = "unused"
    THEN ReadAtTop(rest, var, indirect, to_c(rest.top_offset))
    ELSE IF var.name = "unused"
    THEN Outcome(rest, "", "", <<>>)
    ELSE Alias(rest, var, popped)

\* PopInFlight with line 121 run as well: the pop is recorded on base_offset.
PopInFlight_AlsoBase(self, var, indirect) ==
    Served([self EXCEPT !.variables = Front(@),
                        !.base_offset = StackOffset_pop(@, var)],
           var, indirect, Last(self.variables))

\* PopInFlight taking the oldest in-flight slot instead of the newest.
PopInFlight_Oldest(self, var, indirect) ==
    Served([self EXCEPT !.variables = Tail(@)], var, indirect, Head(self.variables))

\* Stack.pop, lines 102-120: the pop is served from the in-flight list.
PopInFlight(self, var, indirect) ==
    Served([self EXCEPT !.variables = Front(@)], var, indirect, Last(self.variables))

\* ReadAtBase without lines 130-131: the assignment is never guarded.
ReadAtBase_Unguarded(based, var, assign, base) ==
    Outcome([based EXCEPT !.defined = @ \cup {var.name}, !.base_offset = base.self],
            assign \o base.res \o "];" \o "\n", "", <<>>)

\* Lines 126-132: base is what base_offset.to_c() returns and leaves.
ReadAtBase(based, var, assign, base) ==
    Outcome([based EXCEPT !.defined = @ \cup {var.name}, !.base_offset = base.self],
            IF var.condition # ""
            THEN "if (" \o var.condition \o ") { " \o assign \o base.res \o "];" \o " }\n"
            ELSE assign \o base.res \o "];" \o "\n",
            "", <<>>)

\* Lines 122-132: based is the Stack with the pop recorded on base_offset.
Fetched(based, var, indirect) ==
    IF var.name = "unused"
    THEN Outcome(based, "", "", <<>>)
    ELSE ReadAtBase(based, var,
                    var.name \o " = "
                        \o (IF indirect = "" /\ var.type # ""
                            THEN "(" \o var.type \o ")" ELSE "")
                        \o indirect \o "stack_pointer[",
                    to_c(based.base_offset))

\* PopFromMemory without line 121: the pop is not recorded on base_offset.
PopFromMemory_NoBase(self, var, indirect) == Fetched(self, var, indirect)

\* Stack.pop, lines 121-132: the pop reads the physical stack.
PopFromMemory(self, var, indirect) ==
    Fetched([self EXCEPT !.base_offset = StackOffset_pop(@, var)], var, indirect)

\* Recorded without the test of line 99: a peek is recorded on peek_offset
\* too.
Recorded_PeekToo(self, var) ==
    [self EXCEPT !.top_offset = StackOffset_pop(@, var),
                 !.peek_offset = StackOffset_pop(@, var)]

\* Lines 98-100.
Recorded(self, var) ==
    [self EXCEPT !.top_offset = StackOffset_pop(@, var),
                 !.peek_offset = IF ~var.peek THEN StackOffset_pop(@, var) ELSE @]

\* Lines 101-132.
Dispatch(recorded, var, indirect) ==
    IF recorded.variables # <<>>
    THEN PopInFlight(recorded, var, indirect)
    ELSE PopFromMemory(recorded, var, indirect)

Stack_pop(self, var) ==
    Dispatch(Recorded(self, var), var, IF is_array(var) THEN "&" ELSE "")

\* Lines 137-140: c_offset is what top_offset.to_c() returns and leaves.
AddressOf(appended, var, c_offset) ==
    Outcome([appended EXCEPT !.top_offset = StackOffset_push(c_offset.self, var),
                             !.defined = @ \cup {var.name}],
            var.name \o " = &stack_pointer[" \o c_offset.res \o "];\n",
            "", <<>>)

\* Pushed without the test for a name already defined.
Pushed_IgnoreDefined(appended, var) ==
    IF is_array(var) /\ var.name # "unused"
    THEN AddressOf(appended, var, to_c(appended.top_offset))
    ELSE Outcome([appended EXCEPT !.top_offset = StackOffset_push(@, var)],
                 "", "", <<>>)

\* Lines 136-143: appended is the Stack with var on the in-flight list.
Pushed(appended, var) ==
    IF is_array(var) /\ var.name \notin appended.defined /\ var.name # "unused"
    THEN AddressOf(appended, var, to_c(appended.top_offset))
    ELSE Outcome([appended EXCEPT !.top_offset = StackOffset_push(@, var)],
                 "", "", <<>>)

Stack_push(self, var) == Pushed([self EXCEPT !.variables = Append(@, var)], var)

\* WriteBack with lines 153 and 155 exchanged: the slot is written at
\* base_offset as advanced by the slot itself.
WriteBack_Advanced(var, base_offset) ==
    LET cast == IF var.type # "" THEN "(PyObject *)" ELSE ""
    IN  IF ~var.peek /\ var.name # "unused" /\ ~is_array(var)
        THEN (IF var.condition # ""
              THEN <<"if (" \o var.condition \o ") ">> ELSE <<>>)
             \o <<"stack_pointer["
                      \o to_c(StackOffset_push(base_offset, var)).res \o "] = "
                      \o cast \o var.name \o ";\n">>
        ELSE <<>>

\* The strings flush emits for one in-flight variable (lines 147-154).
WriteBack(var, base_offset) ==
    LET cast == IF var.type # "" THEN "(PyObject *)" ELSE ""
    IN  IF ~var.peek /\ var.name # "unused" /\ ~is_array(var)
        THEN (IF var.condition # ""
              THEN <<"if (" \o var.condition \o ") ">> ELSE <<>>)
             \o <<"stack_pointer[" \o to_c(base_offset).res \o "] = "
                      \o cast \o var.name \o ";\n">>
        ELSE <<>>

\* AdvanceBase with line 155 inside the test of line 149: base_offset
\* is advanced for the slots written back only.
AdvanceBase_WrittenOnly(var, base_offset) ==
    IF ~var.peek /\ var.name # "unused" /\ ~is_array(var)
    THEN StackOffset_push(to_c(base_offset).self, var)
    ELSE base_offset

\* base_offset after one iteration of the for loop (lines 146-155).
AdvanceBase(var, base_offset) ==
    StackOffset_push(
        IF ~var.peek /\ var.name # "unused" /\ ~is_array(var)
        THEN to_c(base_offset).self ELSE base_offset,
        var)

\* The for loop of flush over self.variables[i..], in push order.
RECURSIVE FlushLoop(_, _, _, _)
FlushLoop(variables, i, base_offset, emitted) ==
    IF i > Len(variables)
    THEN [base_offset |-> base_offset, emitted |-> emitted]
    ELSE FlushLoop(variables, i + 1, AdvanceBase(variables[i], base_offset),
                   emitted \o WriteBack(variables[i], base_offset))

\* PointerAdvance without the test for "0".
PointerAdvance_Always(number) == <<"stack_pointer += " \o number \o ";\n">>

\* Lines 160-161.
PointerAdvance(number) ==
    IF number # "0" THEN <<"stack_pointer += " \o number \o ";\n">> ELSE <<>>

\* Cleared without the last line, peek_offset.clear().
Cleared_KeepPeek(self) ==
    [self EXCEPT !.variables = <<>>, !.base_offset = EmptyOffset,
                 !.top_offset = EmptyOffset]

\* Lines 162-165.
Cleared(self) ==
    [self EXCEPT !.variables = <<>>, !.base_offset = EmptyOffset,
                 !.top_offset = EmptyOffset, !.peek_offset = EmptyOffset]

\* Lines 156-165: base and top are what the to_c calls of line 156 return
\* and leave; line 157 renders both once more, line 159 base_offset.
FlushCheck(self, emitted, base, top) ==
    IF base.res # top.res
    THEN Outcome([self EXCEPT !.base_offset = to_c(base.self).self,
                              !.top_offset = to_c(top.self).self],
                 "", "AssertionError", emitted)
    ELSE Outcome(Cleared(self), "", "",
                 emitted \o PointerAdvance(to_c(base.self).res))

\* Lines 156-165, after the for loop.
FlushEnd(self, loop) ==
    FlushCheck(self, loop.emitted, to_c(loop.base_offset), to_c(self.top_offset))

Stack_flush(self) ==
    FlushEnd(self, FlushLoop(self.variables, 1, self.base_offset, <<>>))

(***************************************************************************)
(* The stack-slot descriptors the driver passes in.                        *)
(***************************************************************************)
Plain(name, size) == StackItem(name, size, "", FALSE, FALSE, "")

PlainItems ==
    {Plain("x", "1"), Plain("y", "1"), Plain("unused", "1"), Plain("x", "2")}

\* A conditional slot, the `oparg & 1` special case, a peek, a typed array
\* and a typed slot of symbolic size.
SpecialItems ==
    {StackItem("x", "1", "c", FALSE, FALSE, ""),
     StackItem("y", "1", "oparg & 1", FALSE, FALSE, ""),
     StackItem("x", "1", "", TRUE, FALSE, ""),
     StackItem("y", "1", "", FALSE, TRUE, "T"),
     StackItem("y", "n", "", FALSE, FALSE, "T")}

Items == PlainItems \cup SpecialItems

\* The descriptors pushed: those popped and an array nobody names.
PushItems == Items \cup {StackItem("unused", "1", "", FALSE, TRUE, "")}

\* The descriptors recorded on a StackOffset on its own.
OffsetItems ==
    {Plain("x", "1"), Plain("x", "2"), Plain("x", "a"), Plain("x", "b"),
     Plain("x", "c"), StackItem("x", "1", "c", FALSE, FALSE, "")}

PairItems == {Plain("x", "1"), Plain("x", "a"), Plain("x", "b")}

\* No descriptor: the argument of a call that takes none.
NoVar == StackItem("", "", "", FALSE, FALSE, "")

(***************************************************************************)
(* State.                                                                  *)
(***************************************************************************)
VARIABLES
    top_offset, base_offset, peek_offset, variables, defined, \* a Stack
    call,      \* the last Stack call: op, var, ret, exc, emitted
    hist,      \* the pop and push calls since the Stack was last cleared
    off,       \* a StackOffset on its own
    off_call,  \* the last call on off: op and the string returned
    offA, offB \* two StackOffset instances

stackVars == <<top_offset, base_offset, peek_offset, variables, defined, call, hist>>
offVars == <<off, off_call>>
pairVars == <<offA, offB>>
vars == <<stackVars, offVars, pairVars>>

Self ==
    [top_offset |-> top_offset, base_offset |-> base_offset,
     peek_offset |-> peek_offset, variables |-> variables, defined |-> defined]

Call(op, var, outcome) ==
    [op |-> op, var |-> var, ret |-> outcome.ret, exc |-> outcome.exc,
     emitted |-> outcome.emitted]

StackInit ==
    /\ top_offset = NewStack.top_offset
    /\ base_offset = NewStack.base_offset
    /\ peek_offset = NewStack.peek_offset
    /\ variables = NewStack.variables
    /\ defined = NewStack.defined
    /\ call = Call("__init__", NoVar, Outcome(NewStack, "", "", <<>>))
    /\ hist = <<>>

\* A call on off: the method, the string returned ("" for None) and the
\* number of terms the call took off the two lists.
OffsetCall(op, res, before, after) ==
    [op |-> op, res |-> res,
     removed |-> (Len(before.popped) + Len(before.pushed))
                 - (Len(after.popped) + Len(after.pushed))]

OffsetInit ==
    /\ off = EmptyOffset
    /\ off_call = OffsetCall("__init__", "", EmptyOffset, EmptyOffset)

PairInit ==
    /\ offA = EmptyOffset
    /\ offB = EmptyOffset

Init == StackInit /\ OffsetInit /\ PairInit

(***************************************************************************)
(* The driver calls pop, push and flush on one Stack.  An AssertionError   *)
(* out of flush ends the run.                                              *)
(***************************************************************************)
Becomes(outcome) ==
    /\ top_offset' = outcome.self.top_offset
    /\ base_offset' = outcome.self.base_offset
    /\ peek_offset' = outcome.self.peek_offset
    /\ variables' = outcome.self.variables
    /\ defined' = outcome.self.defined

Running == call.exc # "AssertionError"

\* h is a sequence of pop/push pairs of equal effective size, or such a
\* sequence and the pop of the next pair.
Pairs(h) ==
    \A i \in DOMAIN h :
        IF i % 2 = 1 THEN h[i].op = "pop"
        ELSE h[i].op = "push" /\ var_size(h[i].var) = var_size(h[i - 1].var)

\* The bound on the calls of one instruction.
Bounded(h) == Len(h) <= MaxOps \/ (Len(h) <= 2 * MaxPairs /\ Pairs(h))

\* A pop or push call returns or raises.
Returns(op, var, outcome) ==
    /\ Bounded(Append(hist, Call(op, var, outcome)))
    /\ Becomes(outcome)
    /\ call' = Call(op, var, outcome)
    /\ hist' = Append(hist, call')

\* A flush call returns or fails its assertion.
Flushes(outcome) ==
    /\ Becomes(outcome)
    /\ call' = Call("flush", NoVar, outcome)
    /\ hist' = IF outcome.exc = "" THEN <<>> ELSE hist

Pop ==
    /\ Running
    /\ \E var \in Items : Returns("pop", var, Stack_pop(Self, var))
    /\ UNCHANGED <<offVars, pairVars>>

Push ==
    /\ Running
    /\ \E var \in PushItems : Returns("push", var, Stack_push(Self, var))
    /\ UNCHANGED <<offVars, pairVars>>

Flush ==
    /\ Running
    /\ Flushes(Stack_flush(Self))
    /\ UNCHANGED <<offVars, pairVars>>

Next == Pop \/ Push \/ Flush

Spec == Init /\ [][Next]_vars

(***************************************************************************)
(* Calls on one StackOffset: pop, push, simplify, to_c, clear.             *)
(***************************************************************************)
Terms(self) == Len(self.popped) + Len(self.pushed)

OffsetPop ==
    /\ Terms(off) < MaxTerms
    /\ \E item \in OffsetItems : off' = StackOffset_pop(off, item)
    /\ off_call' = OffsetCall("pop", "", off, off)
    /\ UNCHANGED <<stackVars, pairVars>>

OffsetPush ==
    /\ Terms(off) < MaxTerms
    /\ \E item \in OffsetItems : off' = StackOffset_push(off, item)
    /\ off_call' = OffsetCall("push", "", off, off)
    /\ UNCHANGED <<stackVars, pairVars>>

OffsetSimplify ==
    /\ off' = simplify(off)
    /\ off_call' = OffsetCall("simplify", "", off, off')
    /\ UNCHANGED <<stackVars, pairVars>>

ToCReturns(returned) ==
    /\ off' = returned.self
    /\ off_call' = OffsetCall("to_c", returned.res, off, returned.self)

OffsetToC ==
    /\ ToCReturns(to_c(off))
    /\ UNCHANGED <<stackVars, pairVars>>

OffsetClear ==
    /\ off' = EmptyOffset
    /\ off_call' = OffsetCall("clear", "", off, EmptyOffset)
    /\ UNCHANGED <<stackVars, pairVars>>

OffsetNext == OffsetPop \/ OffsetPush \/ OffsetSimplify \/ OffsetToC \/ OffsetClear

OffsetSpec == Init /\ [][OffsetNext]_vars

(***************************************************************************)
(* Two StackOffset instances, each given its own pops and pushes.          *)
(***************************************************************************)
PairPopA ==
    /\ Terms(offA) < MaxPairTerms
    /\ \E item \in PairItems : offA' = StackOffset_pop(offA, item)
    /\ UNCHANGED <<stackVars, offVars, offB>>

PairPushA ==
    /\ Terms(offA) < MaxPairTerms
    /\ \E item \in PairItems : offA' = StackOffset_push(offA, item)
    /\ UNCHANGED <<stackVars, offVars, offB>>

PairPopB ==
    /\ Terms(offB) < MaxPairTerms
    /\ \E item \in PairItems : offB' = StackOffset_pop(offB, item)
    /\ UNCHANGED <<stackVars, offVars, offA>>

PairPushB ==
    /\ Terms(offB) < MaxPairTerms
    /\ \E item \in PairItems : offB' = StackOffset_push(offB, item)
    /\ UNCHANGED <<stackVars, offVars, offA>>

PairNext == PairPopA \/ PairPushA \/ PairPopB \/ PairPushB

PairSpec == Init /\ [][PairNext]_vars

(***************************************************************************)
(* Vocabulary of the properties.                                           *)
(***************************************************************************)
Range(sq) == {sq[i] : i \in DOMAIN sq}

Count(sq, e) == Cardinality({i \in DOMAIN sq : sq[i] = e})

\* The two lists hold the same terms with the same multiplicities.
SameBag(s, t) == \A e \in Range(s) \cup Range(t) : Count(s, e) = Count(t, e)

\* No call of h raised SizeMismatch.
NoMismatch(h) == \A i \in DOMAIN h : h[i].exc = ""

\* A step of the Stack that is the named call.
IsCall(c, op) == c.op = op

Completed(c, op) == c.op = op /\ c.exc = ""

\* The pointer-advance statements among the strings flush emitted.
Advances(emitted) ==
    {i \in DOMAIN emitted : StartsWith(emitted[i], "stack_pointer += ")}

\* Every slot of h is unconditional and has an integer-literal size.
IntLiteral(h) ==
    \A i \in DOMAIN h : h[i].var.condition = "" /\ IsInt(h[i].var.size)

\* Sum of the sizes pushed minus sum of the sizes popped by the calls of h.
RECURSIVE NetSize(_)
NetSize(h) ==
    IF h = <<>> THEN 0
    ELSE NetSize(Front(h))
         + (IF Last(h).op = "push" THEN ParseInt(Last(h).var.size)
            ELSE 0 - ParseInt(Last(h).var.size))

(***************************************************************************)
(* C1.  A flush that follows pop and push calls none of which raised       *)
(* SizeMismatch never fails its assertion: after base_offset has been      *)
(* advanced by every in-flight slot, base_offset.to_c() and                *)
(* top_offset.to_c() are the same string.                                  *)
(***************************************************************************)
C1_FlushAssertionHolds ==
    (IsCall(call, "flush") /\ NoMismatch(hist)) => call.exc # "AssertionError"

(***************************************************************************)
(* C2.  to_c is idempotent: two consecutive to_c calls on a StackOffset,   *)
(* with no pop, push or clear between them, return the same string.        *)
(***************************************************************************)
C2_ToCIdempotent ==
    [][(off_call.op = "to_c" /\ off_call'.op = "to_c")
          => off_call'.res = off_call.res]_vars

(***************************************************************************)
(* C3.  Cancellation is commutative: two StackOffsets that were given the  *)
(* same collection of popped terms and the same collection of pushed       *)
(* terms, in any order, return the same string from to_c.                  *)
(***************************************************************************)
C3_ToCCommutative ==
    (SameBag(offA.popped, offB.popped) /\ SameBag(offA.pushed, offB.pushed))
        => to_c(offA).res = to_c(offB).res

(***************************************************************************)
(* C4.  After simplify, and so after to_c, no term occurs both in popped   *)
(* and in pushed: the multiset intersection of the two lists is empty.     *)
(***************************************************************************)
C4_NoCommonTerm ==
    off_call.op \in {"simplify", "to_c"}
        => Range(off.popped) \cap Range(off.pushed) = {}

\* A simplify that cancelled terms and left terms on both lists.
C4_Witness ==
    /\ off_call.op = "simplify"
    /\ off_call.removed > 0
    /\ off.popped # <<>>
    /\ off.pushed # <<>>

C6_PointerAdvance ==
    [][Completed(call', "flush")
          => LET emitted == call'.emitted
                 advances == Advances(emitted)
             IN  /\ Cardinality(advances) <= 1
                 /\ \A i \in advances : i = Len(emitted)
                 /\ (advances # {}) <=> (to_c(top_offset).res # "0")
                 /\ IntLiteral(hist)
                       => /\ (advances = {}) <=> (NetSize(hist) = 0)
                          /\ \A i \in advances :
                                emitted[i] = "stack_pointer += "
                                    \o IntToStr(NetSize(hist)) \o ";\n"]_vars

\* A flush that wrote one slot back and then advanced the pointer by 1.
C6_Witness ==
    /\ Completed(call, "flush")
    /\ Len(call.emitted) = 2
    /\ call.emitted[2] = "stack_pointer += 1;\n"

(***************************************************************************)
(* C7.  After any sequence of equal-size pop/push pairs (a pop followed by *)
(* a push of a slot of the same declared size) with no flush in between,   *)
(* top_offset.to_c() and base_offset.to_c() are both "0".                  *)
(***************************************************************************)
\* h is a non-empty sequence of whole pop/push pairs of equal declared size.
DeclaredPairs(h) ==
    /\ h # <<>>
    /\ Len(h) % 2 = 0
    /\ \A i \in DOMAIN h :
          IF i % 2 = 1 THEN h[i].op = "pop"
          ELSE h[i].op = "push" /\ h[i].var.size = h[i - 1].var.size

\* ... of equal effective size (var_size).
EffectivePairs(h) == h # <<>> /\ Len(h) % 2 = 0 /\ Pairs(h)

C7_PairsRenderZero ==
    (DeclaredPairs(hist) /\ IsCall(call, "push"))
        => to_c(top_offset).res = "0" /\ to_c(base_offset).res = "0"

\* C7 as amended: after pairs of equal effective size top_offset renders
\* "0", while base_offset holds the first pop alone and nothing pushed; it is
\* flush that advances base_offset.
C7_PairsCancelOnTop ==
    (EffectivePairs(hist) /\ IsCall(call, "push"))
        => /\ to_c(top_offset).res = "0"
           /\ base_offset =
                  [popped |-> <<var_size(hist[1].var)>>, pushed |-> <<>>]
           /\ to_c(base_offset).res = to_c(StackOffset_pop(EmptyOffset, hist[1].var)).res

\* Two pairs, the second pop served from the slot the first pair pushed.
C7_Witness ==
    /\ EffectivePairs(hist)
    /\ IsCall(call, "push")
    /\ Len(hist) = 4
    /\ hist[3].ret # ""
    /\ to_c(base_offset).res = "-1"

(***************************************************************************)
(* C8.  pop raises SizeMismatch exactly when there is an in-flight slot    *)
(* and the declared size of the most recently pushed one differs from the  *)
(* declared size of the slot popped, whatever the other attributes of the  *)
(* two slots are; a pop that raises returns no statement.                  *)
(***************************************************************************)
C8_SizeMismatchExactly ==
    [][IsCall(call', "pop")
          => /\ (call'.exc = "SizeMismatch")
                    <=> (variables # <<>> /\ Last(variables).size # call'.var.size)
             /\ call'.exc \in {"", "SizeMismatch"}
             /\ call'.exc = "SizeMismatch" => call'.ret = ""]_vars

\* A pop of a size "1" slot that raised on an in-flight slot of another size.
C8_Witness ==
    /\ IsCall(call, "pop")
    /\ call.exc = "SizeMismatch"
    /\ call.var.size = "1"
    /\ Len(hist) >= 2
    /\ hist[Len(hist) - 1].op = "push"
    /\ hist[Len(hist) - 1].var.size # "1"

(***************************************************************************)
(* C9.  Aliasing: a push of a slot named x followed at once by a pop of a  *)
(* slot named y of the same declared size (x # y, neither `unused`)        *)
(* makes the pop return exactly `y = x;`, which touches no                 *)
(* stack_pointer[...], defines y, and takes x off the in-flight list, so   *)
(* that flush writes back what it would have written before the push.      *)
(***************************************************************************)
C9_Aliasing ==
    [][(/\ IsCall(call, "push")
        /\ IsCall(call', "pop")
        /\ call.var.name # call'.var.name
        /\ call.var.name # "unused"
        /\ call'.var.name # "unused"
        /\ call.var.size = call'.var.size)
          => /\ call'.exc = ""
             /\ call'.ret = call'.var.name \o " = " \o call.var.name \o ";\n"
             /\ call'.var.name \in defined'
             /\ defined' = defined \cup {call'.var.name}
             /\ variables = Append(variables', call.var)
             /\ FlushLoop(variables', 1, base_offset', <<>>).emitted
                    = FlushLoop(Front(variables), 1, base_offset, <<>>).emitted]_vars

\* The pop of y after the push of x, with another slot still in flight.
C9_Witness ==
    /\ IsCall(call, "pop")
    /\ call.ret = "y = x;\n"
    /\ Len(hist) >= 2
    /\ hist[Len(hist) - 1].op = "push"
    /\ variables # <<>>

(***************************************************************************)
(* C10.  `unused` producer: a push of a slot named `unused` followed by a  *)
(* pop of a slot named v (not `unused`) of the same declared size makes    *)
(* the pop return `v = stack_pointer[d];`, never an assignment from        *)
(* `unused`, where d is what top_offset.to_c() returns once the pop is     *)
(* recorded, "0" when the Stack was empty before the push; v is defined.   *)
(***************************************************************************)
UnusedProducer(before, after) ==
    /\ IsCall(before, "push")
    /\ IsCall(after, "pop")
    /\ before.var.name = "unused"
    /\ after.var.name # "unused"
    /\ before.var.size = after.var.size

C10_UnusedProducerRead ==
    [][UnusedProducer(call, call')
          => LET d == to_c(StackOffset_pop(top_offset, call'.var)).res
             IN  /\ call'.ret = call'.var.name \o " = stack_pointer[" \o d \o "];\n"
                 /\ Len(hist) = 1 => d = "0"
                 /\ call'.var.name \in defined']_vars

\* C10 as amended: the read takes the address, `v = &stack_pointer[d];`,
\* when v is an array, and d is "0" on a Stack that was empty before the
\* push when the two slots have the same effective size.
C10_UnusedProducerReadOrAddress ==
    [][UnusedProducer(call, call')
          => LET d == to_c(StackOffset_pop(top_offset, call'.var)).res
                 indirect == IF is_array(call'.var) THEN "&" ELSE ""
             IN  /\ call'.exc = ""
                 /\ call'.ret = call'.var.name \o " = " \o indirect
                                    \o "stack_pointer[" \o d \o "];\n"
                 /\ (Len(hist) = 1 /\ var_size(call.var) = var_size(call'.var))
                        => d = "0"
                 /\ call'.var.name \in defined'
                 /\ variables = Append(variables', call.var)]_vars

\* The pop of an array y after the push of `unused` on a Stack that had
\* popped a slot before.
C10_Witness ==
    /\ IsCall(call, "pop")
    /\ Len(hist) = 3
    /\ hist[2].op = "push"
    /\ hist[2].var.name = "unused"
    /\ is_array(call.var)
    /\ call.ret = "y = &stack_pointer[-1];\n"

(***************************************************************************)
(* C11.  End to end: n pops of distinctly named unit-size, unconditional,  *)
(* untyped, non-array slots, then m pushes of such slots, then one flush.  *)
(* The i-th pop returns `name = stack_pointer[-i];`, the pushes return     *)
(* nothing, and flush emits the m write-backs in push order, the j-th      *)
(* being `stack_pointer[-n + j - 1] = name;`, and then                     *)
(* `stack_pointer += m - n;` exactly when m differs from n.                *)
(***************************************************************************)
\* The number of pop calls at the head of h.
RECURSIVE LeadingPops(_)
LeadingPops(h) ==
    IF h = <<>> \/ Head(h).op # "pop" THEN 0 ELSE 1 + LeadingPops(Tail(h))

\* A unit-size, unconditional, untyped, non-array slot.
UnitSlot(var) ==
    var.size = "1" /\ var.condition = "" /\ var.type = "" /\ ~var.array

\* h is pops of unit slots and then pushes of unit slots.
PopsThenPushes(h) ==
    /\ \A i \in DOMAIN h : UnitSlot(h[i].var)
    /\ \A i \in DOMAIN h : i > LeadingPops(h) => h[i].op = "push"

\* The names of the slots of h are pairwise distinct.
DistinctNames(h) ==
    \A i, j \in DOMAIN h : i # j => h[i].var.name # h[j].var.name

\* Every slot of h is a value with a name: not a peek, not `unused`.
NamedValues(h) ==
    \A i \in DOMAIN h : h[i].var.name # "unused" /\ ~h[i].var.peek

\* The write-backs of the pushes h[j..] after n pops.
RECURSIVE WriteBacks(_, _, _)
WriteBacks(h, n, j) ==
    IF n + j > Len(h) THEN <<>>
    ELSE <<"stack_pointer[" \o IntToStr(j - n - 1) \o "] = "
               \o h[n + j].var.name \o ";\n">>
         \o WriteBacks(h, n, j + 1)

\* What the calls of h returned and the flush after them emitted.
EndToEnd(h, flushed) ==
    LET n == LeadingPops(h)
        m == Len(h) - n
    IN  /\ flushed.exc = ""
        /\ \A i \in 1..n :
              h[i].ret = h[i].var.name \o " = stack_pointer["
                             \o IntToStr(0 - i) \o "];\n"
        /\ \A j \in 1..m : h[n + j].ret = ""
        /\ flushed.emitted =
              WriteBacks(h, n, 1)
                  \o (IF m # n
                      THEN <<"stack_pointer += " \o IntToStr(m - n) \o ";\n">>
                      ELSE <<>>)

C11_EndToEnd ==
    [][(IsCall(call', "flush") /\ PopsThenPushes(hist) /\ DistinctNames(hist))
          => EndToEnd(hist, call')]_vars

\* C11 as amended: the slots are, besides, not peeks and not named `unused`;
\* a pop of `unused` returns nothing and a push of `unused` or of a peek is
\* not written back.  Checked whether or not a name occurs twice.
C11_EndToEndNamed ==
    [][(IsCall(call', "flush") /\ PopsThenPushes(hist) /\ NamedValues(hist))
          => EndToEnd(hist, call')]_vars

\* The flush after two pops and one push.
C11_Witness ==
    /\ Completed(call, "flush")
    /\ call.emitted = <<"stack_pointer[-2] = x;\n", "stack_pointer += -1;\n">>

(***************************************************************************)
(* C12.  Conditional slot: every assignment pop returns for a slot with a  *)
(* presence condition, and every write-back flush emits for such a slot,   *)
(* is guarded by `if (<that condition>)`; and the term the slot            *)
(* contributes to a StackOffset is the conditional term                    *)
(* `((cond) ? size : 0)`, or `(oparg & 1)` in the special case, never the  *)
(* bare declared size.                                                     *)
(***************************************************************************)
\* The net count of term e on a StackOffset: pushed minus popped.
Net(self, e) == Count(self.pushed, e) - Count(self.popped, e)

\* Two StackOffsets with the same net signed multiset of terms.
SameNet(s, t) ==
    \A e \in Range(s.popped) \cup Range(s.pushed)
               \cup Range(t.popped) \cup Range(t.pushed) : Net(s, e) = Net(t, e)

\* self with term recorded as popped, as pushed.
WithPopped(self, term) == [self EXCEPT !.popped = Append(@, term)]

WithPushed(self, term) == [self EXCEPT !.pushed = Append(@, term)]

\* The term of a slot with a condition.
ConditionalTerm(var) ==
    IF var.condition = "oparg & 1" /\ var.size = "1"
    THEN "(oparg & 1)"
    ELSE "((" \o var.condition \o ") ? " \o var.size \o " : 0)"

Guard(var) == "if (" \o var.condition \o ") "

EndsWith(s, suffix) ==
    Len(s) >= Len(suffix)
        /\ SubSeq(s, Len(s) - Len(suffix) + 1, Len(s)) = suffix

\* flush writes the slot back: it is no peek, no array and not `unused`.
WrittenBack(var) == ~var.peek /\ ~var.array /\ var.name # "unused"

\* emitted[k..] holds, for the in-flight slots vs[i..] in order, one
\* write-back per slot written back, with the slot's guard emitted right
\* before it when the slot has a condition, and no guard otherwise.
RECURSIVE GuardedWriteBacks(_, _, _, _)
GuardedWriteBacks(vs, i, emitted, k) ==
    IF i > Len(vs) THEN TRUE
    ELSE IF ~WrittenBack(vs[i]) THEN GuardedWriteBacks(vs, i + 1, emitted, k)
    ELSE IF vs[i].condition # ""
    THEN /\ k + 1 <= Len(emitted)
         /\ emitted[k] = Guard(vs[i])
         /\ StartsWith(emitted[k + 1], "stack_pointer[")
         /\ EndsWith(emitted[k + 1], " = " \o vs[i].name \o ";\n")
         /\ GuardedWriteBacks(vs, i + 1, emitted, k + 2)
    ELSE /\ k <= Len(emitted)
         /\ StartsWith(emitted[k], "stack_pointer[")
         /\ EndsWith(emitted[k], vs[i].name \o ";\n")
         /\ GuardedWriteBacks(vs, i + 1, emitted, k + 1)

\* base with the terms of the in-flight slots vs[i..] recorded as pushed,
\* the conditional term for a slot with a condition.
RECURSIVE AdvancedBy(_, _, _)
AdvancedBy(base, vs, i) ==
    IF i > Len(vs) THEN base
    ELSE AdvancedBy(WithPushed(base, IF vs[i].condition # ""
                                     THEN ConditionalTerm(vs[i])
                                     ELSE vs[i].size),
                    vs, i + 1)

\* The terms a call records for a slot with a condition.
ConditionalTerms ==
    /\ (IsCall(call', "pop") /\ call'.var.condition # "")
          => LET term == ConditionalTerm(call'.var)
             IN  /\ term # call'.var.size
                 /\ SameNet(top_offset', WithPopped(top_offset, term))
                 /\ ~call'.var.peek
                       => peek_offset' = WithPopped(peek_offset, term)
                 /\ variables = <<>>
                       => base_offset' = WithPopped(base_offset, term)
    /\ (IsCall(call', "push") /\ call'.var.condition # "")
          => SameNet(top_offset', WithPushed(top_offset, ConditionalTerm(call'.var)))
    /\ (IsCall(call', "flush") /\ call'.exc # "")
          => SameNet(base_offset', AdvancedBy(base_offset, variables, 1))

C12_ConditionalGuarded ==
    [][/\ (IsCall(call', "pop") /\ call'.var.condition # "" /\ call'.ret # "")
             => /\ StartsWith(call'.ret, Guard(call'.var) \o "{ ")
                /\ EndsWith(call'.ret, " }\n")
       /\ IsCall(call', "flush")
             => GuardedWriteBacks(variables, 1, call'.emitted, 1)
       /\ ConditionalTerms]_vars

\* C12 as amended: the assignment pop returns is guarded when the slot is
\* read from memory, the in-flight list being empty; an assignment served
\* from an in-flight slot is returned without a guard.
C12_ConditionalGuardedFromMemory ==
    [][/\ (IsCall(call', "pop") /\ call'.var.condition # "" /\ call'.ret # "")
             => IF variables = <<>>
                THEN /\ StartsWith(call'.ret,
                                    Guard(call'.var) \o "{ " \o call'.var.name
                                        \o " = stack_pointer[")
                     /\ EndsWith(call'.ret, "]; }\n")
                ELSE ~StartsWith(call'.ret, "if (")
       /\ IsCall(call', "flush")
             => GuardedWriteBacks(variables, 1, call'.emitted, 1)
       /\ ConditionalTerms]_vars

\* The pop of a conditional slot read from memory.
C12_Witness ==
    /\ IsCall(call, "pop")
    /\ call.var.condition = "c"
    /\ call.ret = "if (c) { x = stack_pointer[-(((c) ? 1 : 0))]; }\n"
    /\ base_offset = [popped |-> <<"((c) ? 1 : 0)">>, pushed |-> <<>>]

(***************************************************************************)
(* C13.  simplify is multiset-intersection removal: from popped = P and    *)
(* pushed = Q it leaves popped = P minus Q and pushed = Q minus P as       *)
(* multisets.  It removes matched pairs only, one occurrence from each     *)
(* list per match, drops no unmatched term and introduces none, so the     *)
(* net signed multiset (pushed minus popped) is unchanged.                 *)
(***************************************************************************)
Monus(a, b) == IF a > b THEN a - b ELSE 0

\* The list `left` holds the multiset difference of p minus q.
IsDifference(left, p, q) ==
    \A e \in Range(left) \cup Range(p) \cup Range(q) :
        Count(left, e) = Monus(Count(p, e), Count(q, e))

C13_SimplifyIsDifference ==
    [][off_call'.op \in {"simplify", "to_c"}
          => /\ IsDifference(off'.popped, off.popped, off.pushed)
             /\ IsDifference(off'.pushed, off.pushed, off.popped)
             /\ SameNet(off', off)
             /\ off_call'.removed % 2 = 0]_vars

\* A simplify that matched two pairs and left a popped term unmatched.
C13_Witness ==
    /\ off_call.op = "simplify"
    /\ off_call.removed = 4
    /\ Len(off.popped) = 1
    /\ off.pushed = <<>>

(***************************************************************************)
(* C14.  The accumulators a pop records to: the slot's effective size is   *)
(* always added to top_offset.popped; to peek_offset.popped exactly when   *)
(* the slot is not a peek; to base_offset.popped exactly when the          *)
(* in-flight list was empty when pop was called, also for a slot named     *)
(* `unused`.  A pop served from an in-flight slot leaves base_offset       *)
(* unchanged, and push changes neither base_offset nor peek_offset.        *)
(***************************************************************************)
\* The pop reads the physical stack at the top offset (lines 111-115), which
\* renders top_offset and so cancels its matching terms in place.
RendersTop(vs, c) ==
    /\ vs # <<>>
    /\ c.exc = ""
    /\ Last(vs).name = "unused"
    /\ c.var.name # "unused"

C14_PopAccumulators ==
    [][/\ IsCall(call', "pop")
             => LET size == var_size(call'.var)
                IN  /\ SameNet(top_offset', WithPopped(top_offset, size))
                    /\ ~RendersTop(variables, call')
                          => top_offset' = WithPopped(top_offset, size)
                    /\ peek_offset' = IF call'.var.peek THEN peek_offset
                                      ELSE WithPopped(peek_offset, size)
                    /\ base_offset' = IF variables = <<>>
                                      THEN WithPopped(base_offset, size)
                                      ELSE base_offset
       /\ IsCall(call', "push")
             => base_offset' = base_offset /\ peek_offset' = peek_offset]_vars

\* The pop of a peek after the pop of a slot that is none, both from memory.
C14_Witness ==
    /\ IsCall(call, "pop")
    /\ call.var.peek
    /\ top_offset.popped = <<"1", "1">>
    /\ base_offset.popped = <<"1", "1">>
    /\ peek_offset.popped = <<"1">>

(***************************************************************************)
(* C15.  In-flight slots are consumed last in, first out: a pop called     *)
(* while the in-flight list is not empty removes the most recently pushed  *)
(* slot not yet consumed and leaves the earlier ones in their order.  When *)
(* that slot and the popped slot have the same name (both `unused`         *)
(* included), or only the consumer is named `unused`, the pop returns no   *)
(* statement and leaves the defined set unchanged; the same-name case      *)
(* comes before the `unused`-producer case.                                *)
(***************************************************************************)
\* The slots pushed by the calls of h and not consumed by a later pop of h,
\* oldest first.
RECURSIVE Unconsumed(_)
Unconsumed(h) ==
    IF h = <<>> THEN <<>>
    ELSE LET before == Unconsumed(Front(h))
         IN  IF Last(h).op = "push" THEN Append(before, Last(h).var)
             ELSE IF before = <<>> THEN <<>>
             ELSE Front(before)

C15_LastInFirstOut ==
    [][(IsCall(call', "pop") /\ variables # <<>>)
          => /\ variables' = Front(variables)
             /\ variables = Unconsumed(hist)
             /\ variables' = Unconsumed(hist')
             /\ (Last(variables).name = call'.var.name
                    \/ call'.var.name = "unused")
                   => call'.ret = "" /\ defined' = defined]_vars

\* The pop of `unused` served from the `unused` slot pushed last, a named
\* slot pushed before it staying in flight.
C15_Witness ==
    /\ IsCall(call, "pop")
    /\ call.exc = ""
    /\ call.var.name = "unused"
    /\ Len(hist) = 3
    /\ hist[1].op = "push"
    /\ hist[1].var.name # "unused"
    /\ hist[2].op = "push"
    /\ hist[2].var.name = "unused"
    /\ variables = <<hist[1].var>>
    /\ call.ret = ""

(***************************************************************************)
(* C16.  push always appends the slot to the in-flight list and adds its   *)
(* effective size to top_offset.pushed.  It returns                        *)
(* `name = &stack_pointer[d];` exactly when the slot is an array, is not   *)
(* named `unused` and its name is not yet defined; d is top_offset         *)
(* rendered before this push is recorded, and the name is then defined.    *)
(* In every other case push returns no statement, so an array name gets    *)
(* its address assignment at most once.                                    *)
(***************************************************************************)
C16_PushAddress ==
    [][/\ IsCall(call', "push")
             => LET var == call'.var
                    size == var_size(var)
                IN  /\ call'.exc = ""
                    /\ variables' = Append(variables, var)
                    /\ SameNet(top_offset', WithPushed(top_offset, size))
                    /\ top_offset'.pushed # <<>>
                    /\ Last(top_offset'.pushed) = size
                    /\ IF var.array /\ var.name # "unused" /\ var.name \notin defined
                       THEN /\ call'.ret = var.name \o " = &stack_pointer["
                                               \o to_c(top_offset).res \o "];\n"
                            /\ defined' = defined \cup {var.name}
                       ELSE /\ call'.ret = ""
                            /\ defined' = defined
                            /\ top_offset' = WithPushed(top_offset, size)
       /\ defined \subseteq defined']_vars

\* The second push of the array y: the first was given its address below a
\* popped slot, the second returns nothing.
C16_Witness ==
    /\ IsCall(call, "push")
    /\ Len(hist) = 3
    /\ hist[2].op = "push"
    /\ hist[2].ret = "y = &stack_pointer[-1];\n"
    /\ hist[3].var = hist[2].var
    /\ call.ret = ""
    /\ Len(variables) = 2

(***************************************************************************)
(* C17.  flush visits the in-flight slots in the order they were pushed.   *)
(* It emits a write-back `stack_pointer[d] = name;` only for slots that    *)
(* are no peek, no array and not named `unused`, with d the base           *)
(* displacement rendered before the slot's own advance; and it advances    *)
(* base_offset by the effective size of every in-flight slot, those for    *)
(* which nothing is written included.                                      *)
(***************************************************************************)
\* The strings of one write-back at displacement d.
WriteBackAt(var, d) ==
    (IF var.condition # "" THEN <<Guard(var)>> ELSE <<>>)
        \o <<"stack_pointer[" \o d \o "] = "
                 \o (IF var.type # "" THEN "(PyObject *)" ELSE "")
                 \o var.name \o ";\n">>

\* The term a slot records on a StackOffset.
TermOf(var) == IF var.condition # "" THEN ConditionalTerm(var) ELSE var.size

\* The write-backs of the in-flight slots vs[i..], in push order, and base
\* after them: a slot written back is written at base as rendered then, and
\* every slot advances base.
RECURSIVE WriteBacksFrom(_, _, _, _)
WriteBacksFrom(base, vs, i, writes) ==
    IF i > Len(vs) THEN [writes |-> writes, base |-> base]
    ELSE IF WrittenBack(vs[i])
    THEN WriteBacksFrom(WithPushed(to_c(base).self, TermOf(vs[i])), vs, i + 1,
                        writes \o WriteBackAt(vs[i], to_c(base).res))
    ELSE WriteBacksFrom(WithPushed(base, TermOf(vs[i])), vs, i + 1, writes)

C17_FlushWriteBacks ==
    [][IsCall(call', "flush")
          => LET written == WriteBacksFrom(base_offset, variables, 1, <<>>)
                 emitted == call'.emitted
             IN  /\ Len(emitted) >= Len(written.writes)
                 /\ SubSeq(emitted, 1, Len(written.writes)) = written.writes
                 /\ \A k \in DOMAIN emitted :
                       k > Len(written.writes) => k \in Advances(emitted)
                 /\ SameNet(written.base, AdvancedBy(base_offset, variables, 1))
                 /\ call'.exc # "" => SameNet(base_offset', written.base)
                 /\ call'.exc = ""
                       => \A k \in Advances(emitted) :
                             emitted[k] = "stack_pointer += "
                                 \o to_c(written.base).res \o ";\n"]_vars

\* A flush that wrote x back at 1, above a slot of size 1 pushed before it
\* and not written back.
C17_Witness ==
    /\ Completed(call, "flush")
    /\ call.emitted = <<"stack_pointer[1] = x;\n", "stack_pointer += 2;\n">>

(***************************************************************************)
(* C18.  Between flushes, when every slot is unconditional and no pop has  *)
(* raised SizeMismatch, the net displacement of top_offset is that of      *)
(* base_offset plus the sizes of the slots in flight, as signed multisets  *)
(* of terms (pushed minus popped), not as rendered strings.  So with no    *)
(* slot in flight top_offset and base_offset have the same net multiset.   *)
(***************************************************************************)
Unconditional(h) == \A i \in DOMAIN h : h[i].var.condition = ""

C18_TopIsBasePlusInFlight ==
    (~IsCall(call, "flush") /\ Unconditional(hist) /\ NoMismatch(hist))
        => /\ SameNet(top_offset, AdvancedBy(base_offset, variables, 1))
           /\ variables = <<>> => SameNet(top_offset, base_offset)

\* Two slots pushed and the symbolic one consumed again: one slot is in
\* flight and top_offset holds three terms, two of which cancel.
C18_Witness ==
    /\ IsCall(call, "pop")
    /\ Unconditional(hist)
    /\ NoMismatch(hist)
    /\ call.var.size = "n"
    /\ Len(variables) = 1
    /\ top_offset.popped = <<"n">>
    /\ Len(top_offset.pushed) = 2
    /\ base_offset = EmptyOffset

(***************************************************************************)
(* C19.  For unconditional integer-literal sizes, the index at which       *)
(* flush writes an in-flight slot back is the net top displacement just    *)
(* before that slot was pushed, for every sequence of pops and pushes      *)
(* before and after that push: a value is written at the position an       *)
(* array pushed at that moment would have been given as its address.       *)
(***************************************************************************)
\* The positions in h of the pushes not consumed by a later pop of h.
RECURSIVE InFlightAt(_)
InFlightAt(h) ==
    IF h = <<>> THEN <<>>
    ELSE LET before == InFlightAt(Front(h))
         IN  IF Last(h).op = "push" THEN Append(before, Len(h))
             ELSE IF before = <<>> THEN <<>>
             ELSE Front(before)

\* The write-backs of the pushes h[ks[i..]], each at the net size of the
\* calls before it.
RECURSIVE WriteBacksAtPushTop(_, _, _)
WriteBacksAtPushTop(h, ks, i) ==
    IF i > Len(ks) THEN <<>>
    ELSE (IF WrittenBack(h[ks[i]].var)
          THEN WriteBackAt(h[ks[i]].var,
                           IntToStr(NetSize(SubSeq(h, 1, ks[i] - 1))))
          ELSE <<>>)
         \o WriteBacksAtPushTop(h, ks, i + 1)

\* What flush emits before the pointer advance is the write-backs at the
\* displacements top_offset had before each push.
WrittenAtPushTop(h, emitted) ==
    LET writes == WriteBacksAtPushTop(h, InFlightAt(h), 1)
    IN  /\ Len(emitted) >= Len(writes)
        /\ SubSeq(emitted, 1, Len(writes)) = writes

\* The address an array pushed now is given: top_offset as rendered before
\* the push is the net size of the calls so far.
AddressIsNetSize ==
    (IsCall(call', "push") /\ IntLiteral(hist'))
        => to_c(top_offset).res = IntToStr(NetSize(hist))

C20_RaiseNotRolledBack ==
    [][(IsCall(call', "pop") /\ call'.exc = "SizeMismatch")
          => LET size == var_size(call'.var)
             IN  /\ top_offset' = WithPopped(top_offset, size)
                 /\ peek_offset' = IF call'.var.peek THEN peek_offset
                                   ELSE WithPopped(peek_offset, size)
                 /\ variables # <<>>
                 /\ variables' = Front(variables)
                 /\ base_offset' = base_offset
                 /\ defined' = defined
                 /\ Self' # Self]_vars

\* A pop that raised on the second of two in-flight slots: the first is
\* still in flight and the pop is on top_offset and peek_offset.
C20_Witness ==
    /\ IsCall(call, "pop")
    /\ call.exc = "SizeMismatch"
    /\ Len(variables) = 1
    /\ top_offset.popped = <<var_size(call.var)>>
    /\ peek_offset.popped = top_offset.popped
    /\ base_offset = EmptyOffset

====
